---- MODULE Spec2Model ----
(***************************************************************************)
(* Model of create_png.py: EquationProcessor.process_equations and the     *)
(* methods it calls.  Strings are sequences of one-character strings, so   *)
(* that str.replace, str.strip, re.sub and os.path.join are computed as    *)
(* the library computes them.  The file system is the set of paths of the  *)
(* files that exist.                                                       *)
(***************************************************************************)
EXTENDS Integers, Sequences, FiniteSets, TLC

(* ------------------------------ bounds --------------------------------- *)
\* largest number of data rows (after the header) of the CSV file
MaxRows == 2

(* ------------------------- string primitives --------------------------- *)
TEX == <<".", "t", "e", "x">>
PDF == <<".", "p", "d", "f">>
PNG == <<".", "p", "n", "g">>
LOG == <<".", "l", "o", "g">>
AUX == <<".", "a", "u", "x">>
SEP == <<"/">>

\* str.endswith
EndsWith(s, suf) ==
  /\ Len(s) >= Len(suf)
  /\ SubSeq(s, Len(s) - Len(suf) + 1, Len(s)) = suf

\* str.startswith
StartsWith(s, pre) ==
  /\ Len(s) >= Len(pre)
  /\ SubSeq(s, 1, Len(pre)) = pre

\* str.replace(old, new): every non-overlapping occurrence, left to right
RECURSIVE Replace(_, _, _)
Replace(s, old, new) ==
  IF Len(s) < Len(old) THEN s
  ELSE IF SubSeq(s, 1, Len(old)) = old
       THEN new \o Replace(SubSeq(s, Len(old) + 1, Len(s)), old, new)
       ELSE <<Head(s)>> \o Replace(Tail(s), old, new)

Whitespace == {" ", "\t", "\n"}

RECURSIVE LStrip(_)
LStrip(s) ==
  IF s # <<>> /\ Head(s) \in Whitespace THEN LStrip(Tail(s)) ELSE s

RECURSIVE RStrip(_)
RStrip(s) ==
  IF s # <<>> /\ s[Len(s)] \in Whitespace
  THEN RStrip(SubSeq(s, 1, Len(s) - 1)) ELSE s

\* str.strip()
Strip(s) == RStrip(LStrip(s))

UpperLetters ==
  <<"A", "B", "C", "D", "E", "F", "G", "H", "I", "J", "K", "L", "M",
    "N", "O", "P", "Q", "R", "S", "T", "U", "V", "W", "X", "Y", "Z">>

LowerLetters ==
  <<"a", "b", "c", "d", "e", "f", "g", "h", "i", "j", "k", "l", "m",
    "n", "o", "p", "q", "r", "s", "t", "u", "v", "w", "x", "y", "z">>

LowerChar(c) ==
  IF \E k \in 1..Len(UpperLetters) : UpperLetters[k] = c
  THEN LowerLetters[CHOOSE k \in 1..Len(UpperLetters) : UpperLetters[k] = c]
  ELSE c

\* str.lower() on ASCII text
Lower(s) == [k \in 1..Len(s) |-> LowerChar(s[k])]

Digit == <<"0", "1", "2", "3", "4", "5", "6", "7", "8", "9">>

\* str(n) / f"{n}" for a natural number
RECURSIVE DecStr(_)
DecStr(n) ==
  IF n < 10 THEN <<Digit[n + 1]>>
  ELSE DecStr(n \div 10) \o <<Digit[(n % 10) + 1]>>

\* os.path.join(a, b) on a POSIX system
JoinPath(a, b) ==
  IF StartsWith(b, SEP) THEN b
  ELSE IF a = <<>> \/ EndsWith(a, SEP) THEN a \o b
  ELSE a \o SEP \o b

\* os.path.basename
RECURSIVE Basename(_)
Basename(p) ==
  IF \E k \in 1..Len(p) : p[k] = "/"
  THEN Basename(Tail(p)) ELSE p

\* the directory part of a path, without the trailing separator
Dirname(p) == SubSeq(p, 1, Len(p) - Len(Basename(p)) - 1)

(* ---------------------------- clean_filename --------------------------- *)
\* the characters the pattern [^a-zA-Z0-9_.] lets through
AllowedChars ==
  {"a", "b", "c", "d", "e", "f", "g", "h", "i", "j", "k", "l", "m",
   "n", "o", "p", "q", "r", "s", "t", "u", "v", "w", "x", "y", "z",
   "A", "B", "C", "D", "E", "F", "G", "H", "I", "J", "K", "L", "M",
   "N", "O", "P", "Q", "R", "S", "T", "U", "V", "W", "X", "Y", "Z",
   "0", "1", "2", "3", "4", "5", "6", "7", "8", "9", "_", "."}

\* a variant of the pattern without the dot
IsAllowed_NoDot(c) == c \in AllowedChars \ {"."}

IsAllowed(c) == c \in AllowedChars

\* re.sub(r"[^a-zA-Z0-9_.]", "", filename)
clean_filename(filename) == SelectSeq(filename, IsAllowed)

(* ------------------------ wrap_equation_in_latex ----------------------- *)
\* str.lstrip("#")
RECURSIVE LStripHash(_)
LStripHash(color) ==
  IF color # <<>> /\ Head(color) = "#" THEN LStripHash(Tail(color)) ELSE color

\* a variant that keeps the color as given
color_code_Kept(color) == color

\* line 52
color_code(color) == LStripHash(color)

\* the template of lines 53-70; each piece of fixed text is one element
DocHead ==
  << "\n        \\documentclass[border=1pt]{standalone}",
     "\n        \\usepackage{amsmath}",
     "\n        \\usepackage{xfrac}",
     "\n        \\usepackage{gfsneohellenicot}",
     "\n        \\usepackage{xcolor}",
     "\n        \\definecolor{equationcolor}{HTML}{" >>

DocMid ==
  << "}",
     "\n        \\begin{document}",
     "\n        \\setbox0\\hbox{\\Large \\textcolor{equationcolor}{$" >>

DocTail ==
  << "$}}",
     "\n        \\dimen0=12mm",
     "\n        \\ifdim\\ht0<\\dimen0",
     "\n        \\ht0=\\dimen0",
     "\n        \\fi",
     "\n        \\ifdim\\dp0<5mm",
     "\n        \\dp0=5mm",
     "\n        \\fi",
     "\n        \\box0",
     "\n        \\end{document}" >>

\* lines 50-70
wrap_equation_in_latex(equation, color) ==
  DocHead \o color_code(color) \o DocMid \o equation \o DocTail

(* -------------------------- read_equation_list ------------------------- *)
\* A row is a sequence of fields.  row[0] of an empty row and row[1], row[2]
\* of a short row flagged "1" raise IndexError; next(reader) on a file with
\* no row raises StopIteration.
\* a variant that checks the length of every row
RowRaises_AnyShort(row) == Len(row) < 3

RowRaises(row) ==
  \/ Len(row) = 0
  \/ row[1] = <<"1">> /\ Len(row) < 3

ReadRaises(rows) ==
  \/ rows = <<>>
  \/ \E k \in 2..Len(rows) : RowRaises(rows[k])

\* a variant that takes every row not flagged 0
RowAccepted_NotZero(row) == row[1] # <<"0">>

\* line 41
RowAccepted(row) == row[1] = <<"1">>

RowToEquation(row) == <<Strip(row[2]), Strip(row[3])>>

RECURSIVE LoadRows(_)
LoadRows(rs) ==
  IF rs = <<>> THEN <<>>
  ELSE IF RowAccepted(Head(rs))
       THEN <<RowToEquation(Head(rs))>> \o LoadRows(Tail(rs))
       ELSE LoadRows(Tail(rs))

\* the list read_equation_list returns when it does not raise
read_equation_list(rows) == LoadRows(Tail(rows))

(* ------------------------------- inputs -------------------------------- *)
\* os.getcwd()
Cwd == <<"/", "w">>

\* values of --output_path
OutputArgs == {<<"o">>, <<"o", ".", "t", "e", "x">>}

\* the header row, discarded whatever it holds
Header == <<<<"1">>, <<"h">>, <<"h">>>>

Body == <<"x">>

\* data rows of the CSV file: accepted rows with a plain name, a name to be
\* stripped and sanitized, no name, a name containing ".tex"; a row that is
\* not flagged; a flagged row that is too short
DataRows ==
  { <<<<"1">>, Body, <<"s", "q">>>>,
    <<<<"1">>, Body, <<" ", "s", "q", "!">>>>,
    <<<<"1">>, Body, <<>>>>,
    <<<<"1">>, Body, <<"s", "q", ".", "t", "e", "x">>>>,
    <<<<"0">>, Body, <<"s", "q">>>>,
    <<<<"1">>, Body>> }

RowSeqs(rowset) == UNION {[1..n -> rowset] : n \in 0..MaxRows}

\* contents of the CSV file: no row at all, or the header and data rows
CsvFiles(rowset) == {<<>>} \cup {<<Header>> \o rs : rs \in RowSeqs(rowset)}

\* what an external process prints on its output: a sequence of lines
ToolOutput == << <<"!", "\n">>, <<"l", ".", "5", "\n">> >>

\* the inputs of the run: the rows the CSV file is made of and the outputs
\* the external processes may print
DefaultInputs == [rows |-> DataRows, outputs |-> {ToolOutput}]

\* what the user types at the confirmation prompt
Answers == {<<"y">>, <<" ", "Y", " ">>, <<"n">>, <<>>, <<"y", "e", "s">>}

\* files that may be in the output directory before the run, relative to
\* it: an image left by an earlier run that was swept, a document file left
\* by an earlier run that was not
TopNames ==
  { <<"s", "q">> \o PNG,
    <<"s", "q">> \o TEX }

\* the output directory before the run: any of the files above and no
\* subdirectory; a subdirectory d with a log file; the document file, d,
\* where removal is denied, and a subdirectory e with an aux file
InitialDirs ==
  { [files |-> top, ro |-> {}] : top \in SUBSET TopNames }
  \cup
  { [files |-> {<<"d", "/", "x">> \o LOG}, ro |-> {}],
    [files |-> {<<"s", "q">> \o TEX,
                <<"d", "/", "x">> \o LOG, <<"e", "/", "y">> \o AUX},
     ro |-> {<<"d">>}] }

(* ------------------------------- state --------------------------------- *)
VARIABLES
  inputs,         \* the rows of the CSV file and the outputs of the tools
  call,           \* a call of one method on its own: name, argument, result
  output_path,    \* self.output_path
  fs,             \* paths of the files that exist
  dirs,           \* paths of the directories that exist
  roDirs,         \* directories in which os.remove is denied
  pc,             \* position in process_equations
  equations,      \* the list read_equation_list returned
  i,              \* the loop index of process_equations, from 1
  tex_file_path,  \* tex_file_path of the current iteration
  confirmation,   \* the local variable confirmation
  log,            \* the records handed to logging, in order
  fs0,            \* history: the files that existed before the run
  trace,          \* history: file writes and external invocations, in order
  written         \* history: paths written by this run

vars == <<inputs, call, output_path, fs, dirs, roDirs, pc, equations, i, tex_file_path,
          confirmation, log, fs0, trace, written>>

\* a log record: level, the fixed part of the message, the record (or the
\* count) it names, and the text inserted after the fixed part
LogText(level, msg, rec, text) ==
  [level |-> level, msg |-> msg, rec |-> rec, text |-> text]

LogRec(level, msg, rec) == LogText(level, msg, rec, <<>>)

\* an event of the history: operation, record, outcome, the two paths
\* involved, and the lines the external process printed
Ev(op, rec, res, a, b, out) ==
  [op |-> op, rec |-> rec, res |-> res, a |-> a, b |-> b, out |-> out]

\* no method is called on its own during a run of process_equations
NoCall == [f |-> "none"]

\* os.path.exists
Exists(p) == p \in fs \/ p \in dirs

Init ==
  /\ inputs = DefaultInputs
  /\ call = NoCall
  /\ \E arg \in OutputArgs : output_path = JoinPath(Cwd, arg)
  /\ \E dir \in InitialDirs :
       /\ fs = {JoinPath(output_path, n) : n \in dir.files}
       /\ roDirs = {JoinPath(output_path, d) : d \in dir.ro}
  /\ dirs = {Cwd} \cup {Dirname(f) : f \in fs}
               \cup (IF fs = {} THEN {} ELSE {output_path})
  /\ fs0 = fs
  /\ confirmation = <<>>
  /\ pc = "start"
  /\ equations = <<>>
  /\ i = 0
  /\ tex_file_path = <<>>
  /\ log = <<>>
  /\ trace = <<>>
  /\ written = {}

(* --------------------- process_equations, lines 153-168 ---------------- *)
\* check_create_folder: os.makedirs(self.output_path, exist_ok=True)
check_create_folder ==
  /\ dirs' = dirs \cup {output_path}
  /\ log' = Append(log, LogRec("info", "folder", 0))

\* .strip().lower() of the text input() returned
Confirmation(answer) == Lower(Strip(answer))

\* read_equation_list raises (IndexError, StopIteration): the exception
\* leaves process_equations
StartInputError ==
  /\ pc = "start"
  /\ check_create_folder
  /\ \E rows \in CsvFiles(inputs.rows) : ReadRaises(rows)
  /\ pc' = "raised"
  /\ UNCHANGED <<inputs, call, output_path, fs, roDirs, equations, i, tex_file_path,
                 confirmation, fs0, trace, written>>

\* a variant without the return of line 168
StartDeclined_NoReturn ==
  /\ pc = "start"
  /\ check_create_folder
  /\ \E rows \in CsvFiles(inputs.rows), answer \in Answers :
       /\ ~ReadRaises(rows)
       /\ Confirmation(answer) # <<"y">>
       /\ confirmation' = Confirmation(answer)
       /\ equations' = read_equation_list(rows)
  /\ IF equations' = <<>>
     THEN pc' = "sweep" /\ i' = i
     ELSE pc' = "write" /\ i' = 1
  /\ UNCHANGED <<inputs, call, output_path, fs, roDirs, tex_file_path, fs0, trace, written>>

\* the user answers something else than y: return at line 168
StartDeclined ==
  /\ pc = "start"
  /\ check_create_folder
  /\ \E rows \in CsvFiles(inputs.rows), answer \in Answers :
       /\ ~ReadRaises(rows)
       /\ Confirmation(answer) # <<"y">>
       /\ confirmation' = Confirmation(answer)
       /\ equations' = read_equation_list(rows)
  /\ pc' = "cancelled"
  /\ UNCHANGED <<inputs, call, output_path, fs, roDirs, i, tex_file_path, fs0, trace, written>>

\* the user answers y: enter the loop of line 169, or go to line 188 when
\* the list is empty
StartConfirmed ==
  /\ pc = "start"
  /\ check_create_folder
  /\ \E rows \in CsvFiles(inputs.rows), answer \in Answers :
       /\ ~ReadRaises(rows)
       /\ Confirmation(answer) = <<"y">>
       /\ confirmation' = Confirmation(answer)
       /\ equations' = read_equation_list(rows)
  /\ IF equations' = <<>>
     THEN pc' = "sweep" /\ i' = i
     ELSE pc' = "write" /\ i' = 1
  /\ UNCHANGED <<inputs, call, output_path, fs, roDirs, tex_file_path, fs0, trace, written>>

(* --------------------- process_equations, lines 169-181 ---------------- *)
EQUATION_ == <<"e", "q", "u", "a", "t", "i", "o", "n", "_">>

\* a variant that falls back when the cleaned name is empty
BaseFilename_FallbackAfterClean(filename, idx) ==
  IF clean_filename(filename) # <<>>
  THEN clean_filename(filename)
  ELSE EQUATION_ \o DecStr(idx)

\* lines 171-173
BaseFilename(filename, idx) ==
  clean_filename(IF filename # <<>> THEN filename ELSE EQUATION_ \o DecStr(idx))

\* a variant that probes once (if in place of while)
Probe_Once(base_filename, tex_filename, increment) ==
  IF Exists(JoinPath(output_path, tex_filename))
  THEN base_filename \o <<"_">> \o DecStr(increment) \o TEX
  ELSE tex_filename

\* the loop of lines 176-178
RECURSIVE Probe(_, _, _)
Probe(base_filename, tex_filename, increment) ==
  IF Exists(JoinPath(output_path, tex_filename))
  THEN Probe(base_filename,
             base_filename \o <<"_">> \o DecStr(increment) \o TEX,
             increment + 1)
  ELSE tex_filename

\* a variant whose counter starts at 2
TexFilename_From2(base_filename) == Probe(base_filename, base_filename \o TEX, 2)

\* a variant without the existence check
TexFilename_NoProbe(base_filename) == base_filename \o TEX

\* lines 174-178: the name of the document file
TexFilename(base_filename) == Probe(base_filename, base_filename \o TEX, 1)

\* lines 169-181: name the document file of record i and write it
WriteTex ==
  /\ pc = "write"
  /\ LET filename     == equations[i][2]
         tex_filename == TexFilename(BaseFilename(filename, i))
         path         == JoinPath(output_path, tex_filename)
     IN /\ tex_file_path' = path
        /\ fs' = fs \cup {path}
        /\ written' = written \cup {path}
        /\ trace' = Append(trace, Ev("write", i, "ok", path, tex_filename, <<>>))
  /\ pc' = "compile"
  /\ UNCHANGED <<inputs, call, output_path, dirs, roDirs, equations, i, confirmation, log, fs0>>

(* ------------------- compile_latex_file, lines 77-112 ------------------ *)
BACKSLASH == <<"\\">>

\* .replace("\\", "/")
ToUnix(path) == Replace(path, BACKSLASH, SEP)

\* the job name xelatex derives from the document path
Jobname(tex_file) ==
  LET b == Basename(tex_file)
  IN IF EndsWith(b, TEX) THEN SubSeq(b, 1, Len(b) - Len(TEX)) ELSE b

\* the files xelatex writes with -output-directory=output_dir
XelatexFiles(output_dir, tex_file, exts) ==
  {JoinPath(output_dir, Jobname(tex_file) \o e) : e \in exts}

\* what one invocation of xelatex can do: exit 0 with the page file; exit
\* nonzero with or without a page file; fail to start
CompileResults == {"ok", "error", "error_pdf", "launch"}

CompileWrites(res) ==
  CASE res = "ok"        -> {PDF, LOG, AUX}
    [] res = "error_pdf" -> {PDF, LOG, AUX}
    [] res = "error"     -> {LOG}
    [] res = "launch"    -> {}

\* ''.join(lines)
RECURSIVE JoinLines(_)
JoinLines(lines) ==
  IF lines = <<>> THEN <<>> ELSE Head(lines) \o JoinLines(Tail(lines))

\* str(e) of the exception of a process that could not be started
LaunchErrorText == <<"E", "r", "r", "n", "o">>

\* str(e) of subprocess.CalledProcessError
ExitStatusText == <<"e", "x", "i", "t", " ", "1">>

\* lines 93-96: the lines read from process.stdout; none when the process
\* did not start
Captured(res, out) == IF res = "launch" THEN <<>> ELSE out

\* a variant that logs the last line only
CompileLog_LastLine(res, rec, full_output) ==
  CASE res = "ok"     -> LogRec("info", "compiled", rec)
    [] res = "launch" -> LogText("error", "compilation_failed", rec,
                                 LaunchErrorText)
    [] OTHER          -> LogText("error", "compiler_errors", rec,
                                 IF full_output = <<>> THEN <<>>
                                 ELSE full_output[Len(full_output)])

\* lines 101-112: what compile_latex_file logs
CompileLog(res, rec, full_output) ==
  CASE res = "ok"        -> LogRec("info", "compiled", rec)
    [] res = "error_pdf" -> LogText("error", "compiler_errors", rec,
                                    JoinLines(full_output))
    [] res = "error"     -> LogText("error", "compiler_errors", rec,
                                    JoinLines(full_output))
    [] res = "launch"    -> LogText("error", "compilation_failed", rec,
                                    LaunchErrorText)

\* a variant that goes to the next record when the compilation failed
Compile_SkipOnFailure ==
  /\ pc = "compile"
  /\ \E res \in CompileResults, printed \in inputs.outputs :
       LET output_dir    == ToUnix(output_path)
           tex_file_unix == ToUnix(tex_file_path)
           out           == XelatexFiles(output_dir, tex_file_unix, CompileWrites(res))
           full_output   == Captured(res, printed)
       IN /\ fs' = fs \cup out
          /\ written' = written \cup out
          /\ log' = Append(log, CompileLog(res, i, full_output))
          /\ trace' = Append(trace, Ev("compile", i, res, tex_file_unix,
                                       output_dir, full_output))
          /\ IF res = "ok"
             THEN pc' = "convert" /\ i' = i
             ELSE IF i < Len(equations)
                  THEN pc' = "write" /\ i' = i + 1
                  ELSE pc' = "sweep" /\ i' = i
  /\ UNCHANGED <<inputs, call, output_path, dirs, roDirs, equations, tex_file_path,
                 confirmation, fs0>>

\* line 183: compile_latex_file(tex_file_path); every exception is caught
\* there, and line 187 follows whatever happened
Compile ==
  /\ pc = "compile"
  /\ \E res \in CompileResults, printed \in inputs.outputs :
       LET output_dir    == ToUnix(output_path)
           tex_file_unix == ToUnix(tex_file_path)
           out           == XelatexFiles(output_dir, tex_file_unix, CompileWrites(res))
           full_output   == Captured(res, printed)
       IN /\ fs' = fs \cup out
          /\ written' = written \cup out
          /\ log' = Append(log, CompileLog(res, i, full_output))
          /\ trace' = Append(trace, Ev("compile", i, res, tex_file_unix,
                                       output_dir, full_output))
  /\ pc' = "convert"
  /\ UNCHANGED <<inputs, call, output_path, dirs, roDirs, equations, i, tex_file_path,
                 confirmation, fs0>>

(* ------------------- convert_pdf_to_png, lines 114-138 ----------------- *)
\* line 185
PdfFilePath(tex_path) == Replace(tex_path, TEX, PDF)

\* line 186
PngFilePath(tex_path) == Replace(tex_path, TEX, PNG)

\* what one invocation of magick can do: exit 0, exit nonzero
\* (CalledProcessError), fail to start (FileNotFoundError, OSError)
ConvertResults == {"ok", "error", "launch"}

\* magick exits 0 only when it can read the page file and write the image
ConvertPossible(res, pdf_file, png_file) ==
  res = "ok" => (pdf_file \in fs /\ Dirname(png_file) \in dirs)

\* lines 134-138: only CalledProcessError is caught
ConvertRaises(res) == res = "launch"

\* a variant that takes the same record again
NextRecord_Again ==
  IF i < Len(equations)
  THEN pc' = "write" /\ i' = i
  ELSE pc' = "sweep" /\ i' = i

\* the end of one iteration of the loop of line 169
NextRecord ==
  IF i < Len(equations)
  THEN pc' = "write" /\ i' = i + 1
  ELSE pc' = "sweep" /\ i' = i

\* lines 134-138: what convert_pdf_to_png logs; the output of magick went
\* to DEVNULL (lines 130-131)
ConvertLog(res, rec) ==
  IF res = "ok" THEN LogRec("info", "converted", rec)
  ELSE LogText("error", "conversion_failed", rec, ExitStatusText)

\* lines 185-187: derive the page and image paths and run the rasterizer
Convert ==
  /\ pc = "convert"
  /\ \E res \in ConvertResults, printed \in inputs.outputs :
       LET pdf_file_unix == ToUnix(PdfFilePath(tex_file_path))
           png_file_unix == ToUnix(PngFilePath(tex_file_path))
       IN /\ ConvertPossible(res, pdf_file_unix, png_file_unix)
          /\ trace' = Append(trace, Ev("convert", i, res, pdf_file_unix,
                                       png_file_unix, Captured(res, printed)))
          /\ IF ConvertRaises(res)
             THEN /\ pc' = "raised"
                  /\ UNCHANGED <<fs, written, log, i>>
             ELSE /\ fs' = IF res = "ok" THEN fs \cup {png_file_unix} ELSE fs
                  /\ written' = IF res = "ok" THEN written \cup {png_file_unix}
                                 ELSE written
                  /\ log' = Append(log, ConvertLog(res, i))
                  /\ NextRecord
  /\ UNCHANGED <<inputs, call, output_path, dirs, roDirs, equations, tex_file_path,
                 confirmation, fs0>>

(* ---------------------- cleanup_files, lines 140-151 ------------------- *)
\* a variant of the list that lacks one extension
file_extensions_NoAux == {LOG, TEX, PDF}

\* line 142
file_extensions == {LOG, AUX, TEX, PDF}

\* line 146
IsIntermediate(path) == \E ext \in file_extensions : EndsWith(Basename(path), ext)

\* the files os.walk(self.output_path) reaches
InTree(path, root) == StartsWith(path, root \o SEP)

\* os.walk is top-down: the files of the root are visited before those of
\* its subdirectories
TopFiles(files, root) ==
  {f \in files : Dirname(f) = root /\ IsIntermediate(f)}

SubFiles(files, root) ==
  {f \in files : InTree(f, root) /\ Dirname(f) # root /\ IsIntermediate(f)}

\* lines 143-148: the files the walk removes when no removal is denied
Removable(files, root) == TopFiles(files, root) \cup SubFiles(files, root)

\* os.remove raises PermissionError in a directory that is not writable
RemoveDenied(f) == Dirname(f) \in roDirs

\* line 188: cleanup_files().  Without a denied removal it removes every
\* matching file and logs the count; os.remove raising ends the walk (no
\* handler at line 147) after the files visited before, and leaves
\* process_equations.
Sweep ==
  /\ pc = "sweep"
  /\ LET top    == TopFiles(fs, output_path)
         sub    == SubFiles(fs, output_path)
         denied == {f \in top \cup sub : RemoveDenied(f)}
     IN IF denied = {}
        THEN /\ fs' = fs \ Removable(fs, output_path)
             /\ log' = Append(log, LogRec("info", "deleted",
                                          Cardinality(Removable(fs, output_path))))
             /\ trace' = Append(trace, Ev("sweep", 0, "ok", output_path, <<>>, <<>>))
             /\ pc' = "done"
        ELSE \E before \in SUBSET (sub \ denied) :
               /\ fs' = fs \ (top \cup before)
               /\ log' = log
               /\ trace' = Append(trace, Ev("sweep", 0, "raised", output_path, <<>>, <<>>))
               /\ pc' = "raised"
  /\ UNCHANGED <<inputs, call, output_path, dirs, roDirs, equations, i, tex_file_path,
                 confirmation, fs0, written>>

(* ----------------------------------------------------------------------- *)
Next ==
  \/ StartInputError
  \/ StartDeclined
  \/ StartConfirmed
  \/ WriteTex
  \/ Compile
  \/ Convert
  \/ Sweep

Spec == Init /\ [][Next]_vars

(* =================== the methods called on their own =================== *)
\* largest number of data rows of a CSV file given to read_equation_list
MaxLoadRows == 3

\* data rows given to read_equation_list: two and four fields to strip, an
\* empty name, flags that are not the literal 1, short rows, an empty row
LoaderRows ==
  { <<<<"1">>, <<" ", "x">>, <<"n", " ">>>>,
    <<<<"1">>, <<"y">>, <<>>>>,
    <<<<"1">>, <<"z">>, <<"m">>, <<"k">>>>,
    <<<<"0">>, <<"x">>, <<"n">>>>,
    <<<<" ", "1">>, <<"x">>, <<"n">>>>,
    <<<<"0">>, <<"x">>>>,
    <<<<"1">>, <<"x">>>>,
    <<>> }

LoaderFiles ==
  {<<>>} \cup
  {<<Header>> \o rs : rs \in UNION {[1..n -> LoaderRows] : n \in 0..MaxLoadRows}}

\* a call that has not returned yet, and the call that follows it
Called(f, arg) ==
  [f |-> f, arg |-> arg, state |-> "called", res |-> <<>>, res2 |-> <<>>]

ReadCalls == {Called("read_equation_list", rows) : rows \in LoaderFiles}

\* longest name given to clean_filename
MaxNameLen == 3

\* characters of the names given to clean_filename: allowed ones of each
\* class and some that are not allowed
NameChars == {"a", "Z", "7", "_", ".", "!", " ", "/"}

CleanCalls ==
  {Called("clean_filename", name) :
     name \in UNION {[1..n -> NameChars] : n \in 0..MaxNameLen}}

\* equation bodies and colors given to wrap_equation_in_latex
WrapBodies == {<<>>, <<"x">>, <<"#", "a">>, <<"$", "}">>}

HexColors ==
  { <<"2", "B", "3", "6", "3", "A">>,
    <<"0", "0", "0", "0", "0", "0">>,
    <<"f", "f", "0", "0", "0", "0">>,
    <<"0", "0", "F", "F", "7", "f">> }

WrapCalls ==
  {Called("wrap_equation_in_latex", [equation |-> e, color |-> c]) :
     e \in WrapBodies, c \in HexColors}

Calls == ReadCalls \cup CleanCalls \cup WrapCalls

\* the state in which a method is called on its own: an EquationProcessor
\* has been constructed and process_equations is not running
FnInit ==
  /\ inputs = DefaultInputs
  /\ call \in Calls
  /\ output_path = JoinPath(Cwd, <<"o">>)
  /\ fs = {}
  /\ roDirs = {}
  /\ dirs = {Cwd}
  /\ fs0 = {}
  /\ confirmation = <<>>
  /\ pc = "call"
  /\ equations = <<>>
  /\ i = 0
  /\ tex_file_path = <<>>
  /\ log = <<>>
  /\ trace = <<>>
  /\ written = {}

runVars == <<inputs, output_path, fs, dirs, roDirs, pc, equations, i,
             tex_file_path, confirmation, log, fs0, trace, written>>

\* read_equation_list(), lines 33-44
CallRead ==
  /\ call.f = "read_equation_list" /\ call.state = "called"
  /\ call' = IF ReadRaises(call.arg)
             THEN [call EXCEPT !.state = "raised"]
             ELSE [call EXCEPT !.state = "returned",
                               !.res = read_equation_list(call.arg)]
  /\ UNCHANGED runVars

\* clean_filename(name), lines 46-48
CallClean ==
  /\ call.f = "clean_filename" /\ call.state = "called"
  /\ call' = [call EXCEPT !.state = "returned",
                          !.res = clean_filename(call.arg)]
  /\ UNCHANGED runVars

\* clean_filename of what clean_filename returned
CallCleanAgain ==
  /\ call.f = "clean_filename" /\ call.state = "returned"
  /\ call' = [call EXCEPT !.state = "again",
                          !.res2 = clean_filename(call.res)]
  /\ UNCHANGED runVars

\* wrap_equation_in_latex(equation, "#" + color), lines 50-70
CallWrapHash ==
  /\ call.f = "wrap_equation_in_latex" /\ call.state = "called"
  /\ call' = [call EXCEPT
               !.state = "returned",
               !.res = wrap_equation_in_latex(call.arg.equation,
                                              <<"#">> \o call.arg.color)]
  /\ UNCHANGED runVars

\* wrap_equation_in_latex(equation, color), lines 50-70
CallWrapPlain ==
  /\ call.f = "wrap_equation_in_latex" /\ call.state = "returned"
  /\ call' = [call EXCEPT
               !.state = "again",
               !.res2 = wrap_equation_in_latex(call.arg.equation,
                                               call.arg.color)]
  /\ UNCHANGED runVars

FnNext ==
  \/ CallRead
  \/ CallClean
  \/ CallCleanAgain
  \/ CallWrapHash
  \/ CallWrapPlain

SpecFn == FnInit /\ [][FnNext]_vars

(* ====================== runs on other inputs =========================== *)
\* rows whose names contain the extensions of the three artifacts
NameRows ==
  { <<<<"1">>, Body, <<"s", "q", ".", "t", "e", "x">>>>,
    <<<<"1">>, Body, <<"s", "q", ".", "p", "n", "g">>>>,
    <<<<"1">>, Body, <<"s", "q", ".", "p", "d", "f">>>> }

\* rows without a name, with a name that has no allowed character, and a
\* row that is not flagged
FallbackRows ==
  { <<<<"1">>, Body, <<>>>>,
    <<<<"1">>, Body, <<"!">>>>,
    <<<<"0">>, Body, <<"s", "q">>>> }

\* outputs of the external processes: two lines, one line
ToolOutputs == {ToolOutput, << <<"e", "r", "r", "\n">> >>}

WideInputs ==
  { [rows |-> NameRows, outputs |-> {ToolOutput}],
    [rows |-> FallbackRows, outputs |-> {ToolOutput}],
    [rows |-> {<<<<"1">>, Body, <<"s", "q">>>>}, outputs |-> ToolOutputs] }

\* a run in an output directory that does not exist yet
WideInit ==
  /\ inputs \in WideInputs
  /\ call = NoCall
  /\ output_path = JoinPath(Cwd, <<"o">>)
  /\ fs = {}
  /\ roDirs = {}
  /\ dirs = {Cwd}
  /\ fs0 = {}
  /\ confirmation = <<>>
  /\ pc = "start"
  /\ equations = <<>>
  /\ i = 0
  /\ tex_file_path = <<>>
  /\ log = <<>>
  /\ trace = <<>>
  /\ written = {}

SpecWide == WideInit /\ [][Next]_vars

(* ======================= properties of the run ========================= *)
\* positions of the trace that hold an event of one kind
Events(op) == {n \in 1..Len(trace) : trace[n].op = op}

EventsOf(op, rec) == {n \in Events(op) : trace[n].rec = rec}

Logged(level, msg, rec) ==
  \E n \in 1..Len(log) :
     log[n].level = level /\ log[n].msg = msg /\ log[n].rec = rec

\* the base name of a document file name: the name without its final .tex
BaseOf(tex_filename) == SubSeq(tex_filename, 1, Len(tex_filename) - Len(TEX))

\* the exception of a rasterizer that did not start left process_equations
RaisedInLoop ==
  pc = "raised" /\ trace # <<>> /\ trace[Len(trace)].op = "convert"

\* process_equations has returned or raised after the confirmation
RunOver == pc = "done" \/ (pc = "raised" /\ trace # <<>>)

\* every record from the given one on has been taken through the three
\* stages of its pipeline
ProcessedFrom(rec) ==
  \A r \in rec..Len(equations) :
     /\ EventsOf("write", r) # {}
     /\ EventsOf("compile", r) # {}
     /\ EventsOf("convert", r) # {}

SQ == <<"s", "q">>

(* ---- C1 ---- *)
\* C1: within one run no two records get the same base name: the document
\* file names (and paths) chosen for two different records differ; two
\* records that both ask for sq in an empty directory get sq and sq_1.
C1_DistinctBaseNames ==
  /\ \A m, n \in Events("write") :
        m # n => /\ trace[m].b # trace[n].b
                 /\ trace[m].a # trace[n].a
                 /\ BaseOf(trace[m].b) # BaseOf(trace[n].b)
  /\ ( /\ fs0 = {}
       /\ Len(equations) = 2
       /\ equations[1][2] = SQ /\ equations[2][2] = SQ
       /\ Cardinality(Events("write")) = 2 )
     => /\ BaseOf(trace[CHOOSE n \in EventsOf("write", 1) : TRUE].b) = SQ
        /\ BaseOf(trace[CHOOSE n \in EventsOf("write", 2) : TRUE].b)
             = SQ \o <<"_", "1">>

\* two records asked for the same name and the second one was renamed
C1_Witness ==
  /\ Len(equations) = 2
  /\ equations[1][2] = SQ /\ equations[2][2] = SQ
  /\ fs0 = {}
  /\ \E n \in EventsOf("write", 2) : trace[n].b = SQ \o <<"_", "1">> \o TEX

(* ---- C2 ---- *)
\* C2: when the compiler exits nonzero for a record, the failure is logged,
\* process_equations does not raise out of the loop, and once the loop is
\* over every later record has been taken through its pipeline.
C2_CompileFailureIsolated ==
  \A n \in Events("compile") :
     trace[n].res \in {"error", "error_pdf"} =>
       /\ Logged("error", "compiler_errors", trace[n].rec)
       /\ ~RaisedInLoop
       /\ (pc \in {"sweep", "done"} => ProcessedFrom(trace[n].rec + 1))

(* ---- C3 ---- *)
\* C3: a launch failure of the compiler or of the rasterizer is caught and
\* logged as an error of that record, the exception does not leave
\* process_equations, and the remaining records are processed.
C3_LaunchFailureIsolated ==
  \A n \in Events("compile") \cup Events("convert") :
     trace[n].res = "launch" =>
       /\ \E e \in 1..Len(log) :
             log[e].level = "error" /\ log[e].rec = trace[n].rec
       /\ ~RaisedInLoop
       /\ (pc \in {"sweep", "done"} => ProcessedFrom(trace[n].rec + 1))

(* ---- C4 ---- *)
\* C4 as stated: the rasterizer is invoked for a record only if the
\* compilation of that record exited with code zero.
C4_RasterizeOnlyAfterSuccess ==
  \A n \in Events("convert") :
     \E m \in EventsOf("compile", trace[n].rec) : trace[m].res = "ok"

\* C4 amended: the rasterizer is invoked for every record exactly once and
\* directly after the compile step of that record has returned, whatever
\* its outcome (exit zero, nonzero exit, launch failure); no record is
\* rasterized before its compile step, and none is skipped.
C4_RasterizeAfterEveryCompile ==
  /\ \A n \in Events("convert") :
        /\ n > 1
        /\ trace[n - 1].op = "compile"
        /\ trace[n - 1].rec = trace[n].rec
        /\ Cardinality(EventsOf("convert", trace[n].rec)) = 1
  /\ \A m \in Events("compile") :
        IF m = Len(trace)
        THEN pc = "convert"
        ELSE trace[m + 1].op = "convert" /\ trace[m + 1].rec = trace[m].rec

\* a record whose compilation failed was handed to the rasterizer, which
\* produced an image from the page file the failed compilation left
C4_Witness ==
  \E n \in Events("convert") :
     /\ trace[n - 1].op = "compile"
     /\ trace[n - 1].res = "error_pdf"
     /\ trace[n].res = "ok"

(* ---- C5 ---- *)
\* the step that allocates and writes the document file of a record
IsAllocation == pc = "write" /\ pc' = "compile"

\* C5 as stated: at allocation time no existing file of the output
\* directory is named base name plus .tex, .pdf or .png.
C5_NoCollisionAnyExtension ==
  [][IsAllocation =>
       \A ext \in {TEX, PDF, PNG} :
          JoinPath(output_path, BaseOf(Basename(tex_file_path')) \o ext) \notin fs]_vars

\* C5 amended: at allocation time no existing file or directory of the
\* output directory is named base name plus .tex, and the path was not
\* written before in this run; files named base name plus .pdf or .png
\* are not looked at.
C5_NoDocumentCollision ==
  [][IsAllocation =>
       LET path == JoinPath(output_path, BaseOf(Basename(tex_file_path')) \o TEX)
       IN /\ path = tex_file_path'
          /\ path \notin fs
          /\ path \notin dirs
          /\ path \notin written]_vars

\* a record asked for sq while sq.tex and sq.png of earlier runs existed:
\* it was given sq_1
C5_Witness ==
  /\ JoinPath(output_path, SQ \o TEX) \in fs0
  /\ JoinPath(output_path, SQ \o PNG) \in fs0
  /\ \E n \in Events("write") :
        /\ equations[trace[n].rec][2] = SQ
        /\ trace[n].b = SQ \o <<"_", "1">> \o TEX

(* ---- C6 ---- *)
\* C6: the page file and the image file handed to the rasterizer are
\* <output directory>/<base name>.pdf and <output directory>/<base name>.png,
\* where <base name>.tex is the document file written for that record.
C6_ArtifactsShareBaseName ==
  \A n \in Events("convert") :
     \A m \in EventsOf("write", trace[n].rec) :
        /\ trace[n].a = JoinPath(output_path, BaseOf(trace[m].b) \o PDF)
        /\ trace[n].b = JoinPath(output_path, BaseOf(trace[m].b) \o PNG)

(* ---- C7 ---- *)
IntermediateExts == {LOG, AUX, TEX, PDF}

C8_SweepContinuesAfterFailure ==
  Events("sweep") # {} =>
    /\ \A f \in fs :
          (InTree(f, output_path) /\ IsIntermediate(f)) => RemoveDenied(f)
    /\ log[Len(log)].msg = "deleted"
    /\ pc = "done"

(* ---- C9 ---- *)
\* C9: the sweep is invoked at most once and only after the last record's
\* pipeline has ended, and every run that passed the confirmation ends with
\* the sweep invoked once.
C9_SweepExactlyOnce ==
  /\ Cardinality(Events("sweep")) <= 1
  /\ Events("sweep") # {} => ProcessedFrom(1) /\ trace[Len(trace)].op = "sweep"
  /\ RunOver => Cardinality(Events("sweep")) = 1

(* ---- C10 ---- *)
\* the prompt has been answered (process_equations got past line 165)
Answered == pc # "start" /\ ~(pc = "raised" /\ trace = <<>>)

\* C10: when the answer, stripped and lower-cased, is not y, the run is
\* cancelled: no document is written, no external process is started, the
\* sweep is not invoked and the files of the output directory are those
\* that were there before.
C10_DeclinedRunsNothing ==
  (Answered /\ confirmation # <<"y">>) =>
    /\ pc = "cancelled"
    /\ trace = <<>>
    /\ written = {}
    /\ fs = fs0

\* the answer yes was given for a list of two records, with files of an
\* earlier run in the directory
C10_Witness ==
  /\ pc = "cancelled"
  /\ confirmation = <<"y", "e", "s">>
  /\ Len(equations) = 2
  /\ fs0 # {}

(* ---- C11 ---- *)
Blank == {" ", "\t", "\n"}

\* t is s without its leading and trailing blanks
IsTrimOf(t, s) ==
  \E lo, hi \in 0..Len(s) :
     /\ lo <= hi
     /\ t = SubSeq(s, lo + 1, hi)
     /\ \A k \in 1..Len(s) : (k <= lo \/ k > hi) => s[k] \in Blank
     /\ t # <<>> => (t[1] \notin Blank /\ t[Len(t)] \notin Blank)
     /\ t = <<>> => lo = Len(s)

ReadReturned == call.f = "read_equation_list" /\ call.state = "returned"

\* the positions of the data rows (the rows after the first) flagged "1"
FlaggedRows(rows) == {k \in 2..Len(rows) : rows[k][1] = <<"1">>}

\* C11: read_equation_list drops the first row and returns exactly the data
\* rows whose field 0 is the literal "1", in the order of the file, each as
\* (trim(field 1), trim(field 2)); no other row appears in the result.
C11_LoaderFilters ==
  ReadReturned =>
    LET rows == call.arg
        res  == call.res
    IN /\ Len(res) = Cardinality(FlaggedRows(rows))
       /\ \E pos \in [1..Len(res) -> FlaggedRows(rows)] :
             /\ \A a, b \in 1..Len(res) : a < b => pos[a] < pos[b]
             /\ \A a \in 1..Len(res) :
                   /\ Len(res[a]) = 2
                   /\ IsTrimOf(res[a][1], rows[pos[a]][2])
                   /\ IsTrimOf(res[a][2], rows[pos[a]][3])

\* a file whose header is flagged and whose data rows are a flagged row to
\* trim, a row with another flag, and a second flagged row: two records
C11_Witness ==
  /\ ReadReturned
  /\ Len(call.arg) = 4
  /\ call.arg[1][1] = <<"1">>
  /\ call.arg[3][1] = <<" ", "1">>
  /\ call.res = << <<<<"x">>, <<"n">>>>, <<<<"z">>, <<"m">>>> >>

(* ---- C12 ---- *)
ReadOver ==
  call.f = "read_equation_list" /\ call.state \in {"returned", "raised"}

\* C12 as stated: loading fails whenever a data row has fewer than 3
\* fields, whatever its flag, and succeeds otherwise.
C12_ShortRowFails ==
  (ReadOver /\ call.arg # <<>>) =>
    (call.state = "raised"
       <=> \E k \in 2..Len(call.arg) : Len(call.arg[k]) < 3)

\* C12 amended: loading fails exactly when a data row is empty or a data
\* row flagged "1" has fewer than 3 fields; a row with another flag and at
\* least one field is skipped without error, however short it is.
C12_FlaggedShortRowFails ==
  (ReadOver /\ call.arg # <<>>) =>
    (call.state = "raised"
       <=> \E k \in 2..Len(call.arg) :
              \/ Len(call.arg[k]) = 0
              \/ Len(call.arg[k]) < 3 /\ call.arg[k][1] = <<"1">>)

\* a file with a short row that is not flagged and a flagged row was loaded
C12_Witness ==
  /\ ReadReturned
  /\ \E k \in 2..Len(call.arg) :
        Len(call.arg[k]) = 2 /\ call.arg[k][1] = <<"0">>
  /\ Len(call.res) = 1

(* ---- C13 ---- *)
StageNo(op) == CASE op = "write" -> 1 [] op = "compile" -> 2 [] op = "convert" -> 3

\* the stages of the records in the order the code prescribes
Rank(ev) == 3 * ev.rec + StageNo(ev.op)

StageEvents == Events("write") \cup Events("compile") \cup Events("convert")

\* C13: the stages run one at a time and once each: the document of a
\* record is written before its compiler run, which is over before its
\* rasterizer run; no stage of a record is attempted twice; and every
\* stage of a record comes after the last stage of the record before it.
C13_SequentialNoRetry ==
  /\ \A m, n \in StageEvents : m < n => Rank(trace[m]) < Rank(trace[n])
  /\ \A n \in StageEvents :
        IF trace[n].op = "write"
        THEN \/ n = 1 /\ trace[n].rec = 1
             \/ /\ n > 1
                /\ trace[n - 1].op = "convert"
                /\ trace[n - 1].rec = trace[n].rec - 1
        ELSE /\ n > 1
             /\ trace[n - 1].rec = trace[n].rec
             /\ StageNo(trace[n - 1].op) = StageNo(trace[n].op) - 1

\* two records went through their stages, the first one failing in both
\* the compiler and the rasterizer
C13_Witness ==
  /\ Len(trace) >= 6
  /\ trace[2].op = "compile" /\ trace[2].res = "error"
  /\ trace[3].op = "convert" /\ trace[3].res = "error"
  /\ trace[6].op = "convert" /\ trace[6].rec = 2 /\ trace[6].res = "ok"

(* ---- C14 ---- *)
\* the document file name made of a candidate and a counter
Numbered(cand, k) == cand \o <<"_">> \o DecStr(k) \o TEX

\* C14: the name allocated is <candidate>.tex when that does not exist in
\* the output directory, and otherwise <candidate>_k.tex for the smallest
\* k >= 1 that does not exist; the allocation step is always possible (the
\* probing ends).
C14_SmallestFreeSuffix ==
  /\ [][IsAllocation =>
          LET cand == BaseFilename(equations[i][2], i)
              name == Basename(tex_file_path')
              most == Cardinality(fs) + Cardinality(dirs) + 1
          IN IF ~Exists(JoinPath(output_path, cand \o TEX))
             THEN name = cand \o TEX
             ELSE \E k \in 1..most :
                    /\ name = Numbered(cand, k)
                    /\ ~Exists(JoinPath(output_path, Numbered(cand, k)))
                    /\ \A j \in 1..(k - 1) :
                          Exists(JoinPath(output_path, Numbered(cand, j)))]_vars
  /\ [](pc = "write" => ENABLED WriteTex)

\* sq.tex was there before the run and two records asked for sq: the
\* second one got sq_2
C14_Witness ==
  /\ JoinPath(output_path, SQ \o TEX) \in fs0
  /\ \E n \in EventsOf("write", 2) : trace[n].b = Numbered(SQ, 2)
  /\ \E n \in EventsOf("write", 1) : trace[n].b = Numbered(SQ, 1)

(* ---- C15 ---- *)
SafeChars ==
  {UpperLetters[k] : k \in 1..Len(UpperLetters)} \cup
  {LowerLetters[k] : k \in 1..Len(LowerLetters)} \cup
  {Digit[k] : k \in 1..Len(Digit)} \cup {"_", "."}

IsSafe(c) == c \in SafeChars

\* the candidate base the claim gives for the record at a position
ExpectedCandidate(rec) ==
  IF equations[rec][2] = <<>>
  THEN <<"e", "q", "u", "a", "t", "i", "o", "n", "_">> \o DecStr(rec)
  ELSE SelectSeq(equations[rec][2], IsSafe)

\* C15: the document name of the record at position i of the loaded list
\* is made from equation_<i> when the requested name is empty, and from
\* the requested name without its unsafe characters when it is not, also
\* when nothing is left of it.
C15_FallbackOnlyWhenEmpty ==
  \A n \in Events("write") :
     LET cand == ExpectedCandidate(trace[n].rec)
     IN \/ trace[n].b = cand \o TEX
        \/ \E k \in 1..Len(trace) : trace[n].b = Numbered(cand, k)

\* the first record asked for the name ! and got the empty base name, the
\* second one asked for no name and got equation_2
C15_Witness ==
  /\ Len(equations) = 2
  /\ equations[1][2] = <<"!">> /\ equations[2][2] = <<>>
  /\ \E n \in EventsOf("write", 1) : trace[n].b = TEX
  /\ \E n \in EventsOf("write", 2) :
        trace[n].b = <<"e", "q", "u", "a", "t", "i", "o", "n", "_", "2">> \o TEX

(* ---- C17 ---- *)
\* sub occurs in s
IsInfix(sub, s) ==
  \E k \in 0..(Len(s) - Len(sub)) : SubSeq(s, k + 1, k + Len(sub)) = sub

\* the lines of an output one after the other
RECURSIVE AllLines(_, _)
AllLines(out, k) ==
  IF k > Len(out) THEN <<>> ELSE out[k] \o AllLines(out, k + 1)

ExitedNonzero(ev) ==
  \/ ev.op = "compile" /\ ev.res \in {"error", "error_pdf"}
  \/ ev.op = "convert" /\ ev.res = "error"

\* the error record logged for the event at a position of the trace, once
\* it has been logged
ErrorRecords(n) ==
  {e \in 1..Len(log) :
     /\ log[e].level = "error"
     /\ log[e].rec = trace[n].rec
     /\ log[e].msg = IF trace[n].op = "compile" THEN "compiler_errors"
                     ELSE "conversion_failed"}

C19_DistinctPageAndImagePaths ==
  \A m, n \in Events("convert") :
     m # n => (trace[m].a # trace[n].a /\ trace[m].b # trace[n].b)

(* ---- C16 ---- *)
\* the positions of a name that hold a character of A-Z, a-z, 0-9, _ or .
SafePositions(name) == {k \in 1..Len(name) : name[k] \in SafeChars}

\* C16: the result of clean_filename holds only characters of A-Z, a-z,
\* 0-9, underscore and dot, namely the allowed characters of the argument
\* in their order, and clean_filename of the result is the result.
C16_CleanIdempotent ==
  (call.f = "clean_filename" /\ call.state \in {"returned", "again"}) =>
    /\ \A k \in 1..Len(call.res) : call.res[k] \in SafeChars
    /\ Len(call.res) = Cardinality(SafePositions(call.arg))
    /\ \E pos \in [1..Len(call.res) -> SafePositions(call.arg)] :
          /\ \A a, b \in 1..Len(call.res) : a < b => pos[a] < pos[b]
          /\ \A a \in 1..Len(call.res) : call.res[a] = call.arg[pos[a]]
    /\ call.state = "again" => call.res2 = call.res

\* the name ./a was cleaned to .a and cleaned again
C16_Witness ==
  /\ call.f = "clean_filename" /\ call.state = "again"
  /\ call.arg = <<".", "/", "a">>
  /\ call.res = <<".", "a">>
  /\ call.res2 = <<".", "a">>

(* ---- C18 ---- *)
DEFINECOLOR == "\n        \\definecolor{equationcolor}{HTML}{"

TEXTCOLOR ==
  "\n        \\setbox0\\hbox{\\Large \\textcolor{equationcolor}{$"

\* the position of a piece of fixed text in a document
PosOf(token, doc) == CHOOSE k \in 1..Len(doc) : doc[k] = token

\* the document defines the color as the hex value, without #
DefinesColor(doc, hex) ==
  /\ Cardinality({k \in 1..Len(doc) : doc[k] = DEFINECOLOR}) = 1
  /\ LET k == PosOf(DEFINECOLOR, doc)
     IN /\ SubSeq(doc, k + 1, k + Len(hex)) = hex
        /\ doc[k + Len(hex) + 1] = "}"

\* the document holds the body as given, between the two $
HoldsBody(doc, body) ==
  /\ Cardinality({k \in 1..Len(doc) : doc[k] = TEXTCOLOR}) = 1
  /\ LET k == PosOf(TEXTCOLOR, doc)
     IN /\ SubSeq(doc, k + 1, k + Len(body)) = body
        /\ doc[k + Len(body) + 1] = "$}}"

\* C18: wrap_equation_in_latex gives the same document, with the color
\* defined as the six hex digits, for a color with and without a leading
\* #, and the equation body is in the document as given.
C18_HashStripped ==
  /\ (call.f = "wrap_equation_in_latex" /\ call.state \in {"returned", "again"})
       => /\ DefinesColor(call.res, call.arg.color)
          /\ HoldsBody(call.res, call.arg.equation)
  /\ (call.f = "wrap_equation_in_latex" /\ call.state = "again")
       => /\ call.res2 = call.res
          /\ DefinesColor(call.res2, call.arg.color)
          /\ HoldsBody(call.res2, call.arg.equation)

\* a body that holds a # was wrapped with the color #2B363A and with 2B363A
C18_Witness ==
  /\ call.f = "wrap_equation_in_latex" /\ call.state = "again"
  /\ call.arg.equation = <<"#", "a">>
  /\ call.arg.color = <<"2", "B", "3", "6", "3", "A">>
  /\ call.res = call.res2

====
